---- MODULE Spec2Model ----
(***************************************************************************)
(* Model of the DiMonte mini CMS request layer (src/server.js): the auth   *)
(* gate, post validation, the public and admin post routes, and the posts  *)
(* table of src/schema.sql as the routes' SQL statements act on it.        *)
(*                                                                         *)
(* Text is modelled as a sequence of one-character strings, so that trim,  *)
(* toLowerCase and Number() are computed character by character.           *)
(***************************************************************************)
EXTENDS Integers, Sequences, FiniteSets, TLC

VARIABLES posts, nextId, clock, sessions, nextSid, adminPassword, zone, req, res, ran, stmts,
          inflight, client

vars == <<posts, nextId, clock, sessions, nextSid, adminPassword, zone, req, res, ran, stmts,
          inflight, client>>

(***************************************************************************)
(* Bounds of the model.                                                    *)
(***************************************************************************)
\* how many ids the SERIAL sequence hands out before create is disabled
MaxPosts == 2
\* how far the database clock NOW() advances
MaxClock == 1
\* how many session ids the server generates before login is disabled
MaxSessions == 2
\* how many hours pass in the session specification
MaxHours == 9
\* how many requests the server handles at the same time
MaxInflight == 2
\* longest path id text drawn in the id-parsing specification
MaxIdLen == 3

(***************************************************************************)
(* Text helpers: String.prototype.trim and toLowerCase.                    *)
(***************************************************************************)
IsSpace(c) == c \in {" ", "\t"}

RECURSIVE TrimStart(_)
TrimStart(s) ==
  IF s # <<>> /\ IsSpace(Head(s)) THEN TrimStart(Tail(s)) ELSE s

RECURSIVE TrimEnd(_)
TrimEnd(s) ==
  IF s # <<>> /\ IsSpace(s[Len(s)]) THEN TrimEnd(SubSeq(s, 1, Len(s) - 1)) ELSE s

Trim(s) == TrimEnd(TrimStart(s))

UpperChars == <<"A","B","C","D","E","F","G","H","I","J","K","L","M",
                "N","O","P","Q","R","S","T","U","V","W","X","Y","Z">>
LowerChars == <<"a","b","c","d","e","f","g","h","i","j","k","l","m",
                "n","o","p","q","r","s","t","u","v","w","x","y","z">>

LowerChar(c) ==
  IF \E i \in 1..Len(UpperChars) : UpperChars[i] = c
  THEN LowerChars[CHOOSE i \in 1..Len(UpperChars) : UpperChars[i] = c]
  ELSE c

ToLowerCase(s) == [i \in 1..Len(s) |-> LowerChar(s[i])]

(***************************************************************************)
(* JSON body fields: a field is absent (undefined) or a string.            *)
(***************************************************************************)
Undefined == [k |-> "undefined", s |-> <<>>]
Str(s) == [k |-> "string", s |-> s]

\* String(v || d): an absent or empty field takes the default
StringOr(v, d) == IF v.k = "undefined" \/ v.s = <<>> THEN d ELSE v.s

sDraft == <<"d","r","a","f","t">>
sPublished == <<"p","u","b","l","i","s","h","e","d">>

(***************************************************************************)
(* normalizePostInput (server.js:93-109).  The result is either the        *)
(* normalized record or the Error thrown, named by its message.            *)
(***************************************************************************)
AllowedStatus == {sDraft, sPublished}

\* the status passed on without the coercion to 'draft'
NormalizeStatus_NoCoerce(raw) == ToLowerCase(Trim(StringOr(raw, sDraft)))

\* the status compared without toLowerCase()
NormalizeStatus_NoLower(raw) ==
  LET status == Trim(StringOr(raw, sDraft))
  IN  IF status \notin AllowedStatus THEN sDraft ELSE status

\* the status after trim().toLowerCase() and the coercion to 'draft'
NormalizeStatus(raw) ==
  LET status == ToLowerCase(Trim(StringOr(raw, sDraft)))
  IN  IF status \notin AllowedStatus THEN sDraft ELSE status

\* the checks in the order title, body, post_date
normalizePostInput_BodyFirst(body) ==
  LET title     == Trim(StringOr(body.title, <<>>))
      category  == Trim(StringOr(body.category, <<>>))
      post_date == Trim(StringOr(body.post_date, <<>>))
      content   == Trim(StringOr(body.body, <<>>))
      status    == NormalizeStatus(body.status)
      data      == [title |-> title, category |-> category,
                    post_date |-> post_date, body |-> content, status |-> status]
      none      == [title |-> <<>>, category |-> <<>>, post_date |-> <<>>,
                    body |-> <<>>, status |-> <<>>]
  IN  IF title = <<>> THEN [ok |-> FALSE, error |-> "Titel fehlt", data |-> none]
      ELSE IF content = <<>> THEN [ok |-> FALSE, error |-> "Text fehlt", data |-> none]
      ELSE IF post_date = <<>> THEN [ok |-> FALSE, error |-> "Datum fehlt", data |-> none]
      ELSE [ok |-> TRUE, error |-> "", data |-> data]

normalizePostInput(body) ==
  LET title     == Trim(StringOr(body.title, <<>>))
      category  == Trim(StringOr(body.category, <<>>))
      post_date == Trim(StringOr(body.post_date, <<>>))
      content   == Trim(StringOr(body.body, <<>>))
      status    == NormalizeStatus(body.status)
      data      == [title |-> title, category |-> category,
                    post_date |-> post_date, body |-> content, status |-> status]
      none      == [title |-> <<>>, category |-> <<>>, post_date |-> <<>>,
                    body |-> <<>>, status |-> <<>>]
  IN  IF title = <<>> THEN [ok |-> FALSE, error |-> "Titel fehlt", data |-> none]
      ELSE IF post_date = <<>> THEN [ok |-> FALSE, error |-> "Datum fehlt", data |-> none]
      ELSE IF content = <<>> THEN [ok |-> FALSE, error |-> "Text fehlt", data |-> none]
      ELSE [ok |-> TRUE, error |-> "", data |-> data]

(***************************************************************************)
(* Number(req.params.id) (server.js:228, 272, 318, 352) on text over the   *)
(* alphabet digits, sign, dot, blank and letters: surrounding white space  *)
(* is dropped, the empty text is 0, an optionally signed decimal literal   *)
(* (digits, digits., digits.digits, .digits) is its value, anything else   *)
(* is NaN.  The value is the fraction num / den, den a power of ten.       *)
(***************************************************************************)
DigitChars == <<"0","1","2","3","4","5","6","7","8","9">>

IsDigit(c) == \E i \in 1..Len(DigitChars) : DigitChars[i] = c

DigitValue(c) == (CHOOSE i \in 1..Len(DigitChars) : DigitChars[i] = c) - 1

AllDigits(s) == \A i \in 1..Len(s) : IsDigit(s[i])

RECURSIVE DecimalValue(_)
DecimalValue(s) ==
  IF s = <<>> THEN 0
  ELSE 10 * DecimalValue(SubSeq(s, 1, Len(s) - 1)) + DigitValue(s[Len(s)])

RECURSIVE Pow10(_)
Pow10(n) == IF n = 0 THEN 1 ELSE 10 * Pow10(n - 1)

NaN == [nan |-> TRUE, num |-> 0, den |-> 1]

\* StrUnsignedDecimalLiteral without exponent
UnsignedDecimal(s) ==
  LET dots == {i \in 1..Len(s) : s[i] = "."}
  IN  IF dots = {}
      THEN IF s # <<>> /\ AllDigits(s)
           THEN [nan |-> FALSE, num |-> DecimalValue(s), den |-> 1]
           ELSE NaN
      ELSE LET d    == CHOOSE i \in dots : \A j \in dots : i <= j
               ip   == SubSeq(s, 1, d - 1)
               fp   == SubSeq(s, d + 1, Len(s))
           IN  IF AllDigits(ip) /\ AllDigits(fp) /\ Len(ip) + Len(fp) > 0
               THEN [nan |-> FALSE,
                     num |-> DecimalValue(ip) * Pow10(Len(fp)) + DecimalValue(fp),
                     den |-> Pow10(Len(fp))]
               ELSE NaN

\* parseInt(text, 10): the leading digits of an optionally signed text
Number_ParseInt(text) ==
  LET s == TrimStart(text)
      neg == s # <<>> /\ Head(s) = "-"
      u == IF s # <<>> /\ Head(s) \in {"-", "+"} THEN Tail(s) ELSE s
      stops == {i \in 1..Len(u) : ~IsDigit(u[i])}
      n == IF stops = {} THEN Len(u)
           ELSE (CHOOSE i \in stops : \A j \in stops : i <= j) - 1
      v == DecimalValue(SubSeq(u, 1, n))
  IN  IF n = 0 THEN NaN
      ELSE [nan |-> FALSE, num |-> IF neg THEN 0 - v ELSE v, den |-> 1]

Number(text) ==
  LET s == Trim(text)
  IN  IF s = <<>> THEN [nan |-> FALSE, num |-> 0, den |-> 1]
      ELSE IF Head(s) = "-"
           THEN LET u == UnsignedDecimal(Tail(s))
                IN  [nan |-> u.nan, num |-> 0 - u.num, den |-> u.den]
      ELSE IF Head(s) = "+" THEN UnsignedDecimal(Tail(s))
      ELSE UnsignedDecimal(s)

\* Number.isInteger(id)
IsInteger(n) == ~n.nan /\ n.num % n.den = 0

\* the check with id < 0 for id <= 0
InvalidId_ZeroPasses(n) == ~IsInteger(n) \/ n.num < 0

\* !Number.isInteger(id) || id <= 0
InvalidId(n) == ~IsInteger(n) \/ n.num <= 0

\* the integer an accepted id denotes
IdValue(n) == n.num \div n.den

(***************************************************************************)
(* The posts table (schema.sql) and the statements the routes issue.       *)
(* posts maps the id of each stored row to the row.  A statement yields    *)
(* [err, rows, posts, nextId]: the error pool.query rejects with ("" when  *)
(* it resolves), the rows returned, and the table and SERIAL sequence      *)
(* afterwards.  down is the store being unreachable or the table missing.  *)
(***************************************************************************)
StorageDown == "connect ECONNREFUSED"
BadDate == "invalid input syntax for type date"
CheckViolation == "violates check constraint posts_status_check"

Result(err, rows, p, n) == [err |-> err, rows |-> rows, posts |-> p, nextId |-> n]

\* post_date DATE: the text is a date when it is a day number
IsDateText(text) == text # <<>> /\ AllDigits(text)

DateIn(text) == DecimalValue(text)

\* status CHECK (status IN ('draft','published'))
StatusCheck(status) == status \in {sDraft, sPublished}

\* ORDER BY post_date DESC, id DESC
\* ORDER BY post_date DESC, id: ties by ascending id
Precedes_TiesAscending(a, b) ==
  \/ a.post_date > b.post_date
  \/ a.post_date = b.post_date /\ a.id < b.id

Precedes(a, b) ==
  \/ a.post_date > b.post_date
  \/ a.post_date = b.post_date /\ a.id > b.id

RECURSIVE OrderBy(_)
OrderBy(rows) ==
  IF rows = {} THEN <<>>
  ELSE LET first == CHOOSE r \in rows : \A q \in rows \ {r} : Precedes(r, q)
       IN  <<first>> \o OrderBy(rows \ {first})

AllRows == {posts[i] : i \in DOMAIN posts}

\* the column list of the public SELECTs has no status
PublicColumns(row) ==
  [id |-> row.id, title |-> row.title, category |-> row.category,
   post_date |-> row.post_date, body |-> row.body, status |-> <<>>,
   created_at |-> row.created_at, updated_at |-> row.updated_at]

\* the listing without its WHERE clause
SelectPublished_NoFilter(down) ==
  IF down THEN Result(StorageDown, <<>>, posts, nextId)
  ELSE Result("", OrderBy({PublicColumns(r) : r \in AllRows}), posts, nextId)

SelectPublished(down) ==
  IF down THEN Result(StorageDown, <<>>, posts, nextId)
  ELSE Result("", OrderBy({PublicColumns(r) : r \in {q \in AllRows : q.status = sPublished}}),
              posts, nextId)

\* the lookup without AND status = 'published'
SelectPublishedById_NoFilter(id, down) ==
  IF down THEN Result(StorageDown, <<>>, posts, nextId)
  ELSE IF id \in DOMAIN posts
       THEN Result("", <<PublicColumns(posts[id])>>, posts, nextId)
       ELSE Result("", <<>>, posts, nextId)

SelectPublishedById(id, down) ==
  IF down THEN Result(StorageDown, <<>>, posts, nextId)
  ELSE IF id \in DOMAIN posts /\ posts[id].status = sPublished
       THEN Result("", <<PublicColumns(posts[id])>>, posts, nextId)
       ELSE Result("", <<>>, posts, nextId)

SelectAll(down) ==
  IF down THEN Result(StorageDown, <<>>, posts, nextId)
  ELSE Result("", OrderBy(AllRows), posts, nextId)

SelectById(id, down) ==
  IF down THEN Result(StorageDown, <<>>, posts, nextId)
  ELSE IF id \in DOMAIN posts
       THEN Result("", <<posts[id]>>, posts, nextId)
       ELSE Result("", <<>>, posts, nextId)

Insert(data, down) ==
  IF down THEN Result(StorageDown, <<>>, posts, nextId)
  ELSE IF ~IsDateText(data.post_date) THEN Result(BadDate, <<>>, posts, nextId)
  ELSE IF ~StatusCheck(data.status) THEN Result(CheckViolation, <<>>, posts, nextId + 1)
  ELSE LET row == [id |-> nextId, title |-> data.title, category |-> data.category,
                   post_date |-> DateIn(data.post_date), body |-> data.body,
                   status |-> data.status, created_at |-> clock, updated_at |-> clock]
       IN  Result("", <<row>>, [i \in DOMAIN posts \cup {nextId} |->
                                  IF i = nextId THEN row ELSE posts[i]], nextId + 1)

\* an UPDATE that inserts the row when the id matches none
Update_Upsert(data, id, down) ==
  IF down THEN Result(StorageDown, <<>>, posts, nextId)
  ELSE IF ~IsDateText(data.post_date) THEN Result(BadDate, <<>>, posts, nextId)
  ELSE IF ~StatusCheck(data.status) THEN Result(CheckViolation, <<>>, posts, nextId)
  ELSE LET row == [id |-> id, title |-> data.title, category |-> data.category,
                   post_date |-> DateIn(data.post_date), body |-> data.body,
                   status |-> data.status,
                   created_at |-> IF id \in DOMAIN posts THEN posts[id].created_at ELSE clock,
                   updated_at |-> clock]
       IN  Result("", <<row>>, [i \in DOMAIN posts \cup {id} |->
                                  IF i = id THEN row ELSE posts[i]], nextId)

\* an UPDATE that also stamps created_at
Update_StampsCreated(data, id, down) ==
  IF down THEN Result(StorageDown, <<>>, posts, nextId)
  ELSE IF ~IsDateText(data.post_date) THEN Result(BadDate, <<>>, posts, nextId)
  ELSE IF id \notin DOMAIN posts THEN Result("", <<>>, posts, nextId)
  ELSE IF ~StatusCheck(data.status) THEN Result(CheckViolation, <<>>, posts, nextId)
  ELSE LET row == [posts[id] EXCEPT !.title = data.title, !.category = data.category,
                                    !.post_date = DateIn(data.post_date),
                                    !.body = data.body, !.status = data.status,
                                    !.created_at = clock, !.updated_at = clock]
       IN  Result("", <<row>>, [posts EXCEPT ![id] = row], nextId)

\* an UPDATE that keeps the old category when the new one is empty
Update_KeepsOmitted(data, id, down) ==
  IF down THEN Result(StorageDown, <<>>, posts, nextId)
  ELSE IF ~IsDateText(data.post_date) THEN Result(BadDate, <<>>, posts, nextId)
  ELSE IF id \notin DOMAIN posts THEN Result("", <<>>, posts, nextId)
  ELSE IF ~StatusCheck(data.status) THEN Result(CheckViolation, <<>>, posts, nextId)
  ELSE LET row == [posts[id] EXCEPT !.title = data.title,
                                    !.category = IF data.category = <<>>
                                                 THEN @ ELSE data.category,
                                    !.post_date = DateIn(data.post_date),
                                    !.body = data.body, !.status = data.status,
                                    !.updated_at = clock]
       IN  Result("", <<row>>, [posts EXCEPT ![id] = row], nextId)

\* an UPDATE with an optimistic-concurrency check: it matches only a row
\* that no update has stamped since its creation
Update_ChecksVersion(data, id, down) ==
  IF down THEN Result(StorageDown, <<>>, posts, nextId)
  ELSE IF ~IsDateText(data.post_date) THEN Result(BadDate, <<>>, posts, nextId)
  ELSE IF id \notin DOMAIN posts THEN Result("", <<>>, posts, nextId)
  ELSE IF posts[id].updated_at # posts[id].created_at THEN Result("", <<>>, posts, nextId)
  ELSE IF ~StatusCheck(data.status) THEN Result(CheckViolation, <<>>, posts, nextId)
  ELSE LET row == [posts[id] EXCEPT !.title = data.title, !.category = data.category,
                                    !.post_date = DateIn(data.post_date),
                                    !.body = data.body, !.status = data.status,
                                    !.updated_at = clock]
       IN  Result("", <<row>>, [posts EXCEPT ![id] = row], nextId)

Update(data, id, down) ==
  IF down THEN Result(StorageDown, <<>>, posts, nextId)
  ELSE IF ~IsDateText(data.post_date) THEN Result(BadDate, <<>>, posts, nextId)
  ELSE IF id \notin DOMAIN posts THEN Result("", <<>>, posts, nextId)
  ELSE IF ~StatusCheck(data.status) THEN Result(CheckViolation, <<>>, posts, nextId)
  ELSE LET row == [posts[id] EXCEPT !.title = data.title, !.category = data.category,
                                    !.post_date = DateIn(data.post_date),
                                    !.body = data.body, !.status = data.status,
                                    !.updated_at = clock]
       IN  Result("", <<row>>, [posts EXCEPT ![id] = row], nextId)

\* a DELETE that returns the row and leaves it in the table
Delete_KeepsRow(id, down) ==
  IF down THEN Result(StorageDown, <<>>, posts, nextId)
  ELSE IF id \in DOMAIN posts
       THEN Result("", <<[posts[id] EXCEPT !.id = id]>>, posts, nextId)
       ELSE Result("", <<>>, posts, nextId)

Delete(id, down) ==
  IF down THEN Result(StorageDown, <<>>, posts, nextId)
  ELSE IF id \in DOMAIN posts
       THEN Result("", <<[posts[id] EXCEPT !.id = id]>>,
                   [i \in DOMAIN posts \ {id} |-> posts[i]], nextId)
       ELSE Result("", <<>>, posts, nextId)

(***************************************************************************)
(* Requests, responses and sessions.                                       *)
(***************************************************************************)
SIDs == 1..MaxSessions

\* the session cookie a request carries: 0 is no cookie; the cookie is signed
\* (server.js:63), so any other is an id the server has generated
Cookies == {0} \cup (1..(nextSid - 1))

NoBody == [title |-> Undefined, category |-> Undefined, post_date |-> Undefined,
           body |-> Undefined, status |-> Undefined]

NoCreds == [username |-> Undefined, password |-> Undefined]

Request(op, cookie, id, body, creds) ==
  [op |-> op, cookie |-> cookie, id |-> id, body |-> body, creds |-> creds]

\* res.status(status).json(...); sid is the session id of a Set-Cookie, 0 for none
Response(status, ok, error, kind, items, deletedId, user, sid) ==
  [status |-> status, ok |-> ok, error |-> error, kind |-> kind, items |-> items,
   deletedId |-> deletedId, user |-> user, sid |-> sid]

\* no request is being handled
NoRequest == Request("", 0, <<>>, NoBody, NoCreds)
NoResponse == Response(0, FALSE, "", "none", <<>>, 0, <<>>, 0)

Idle == req = NoRequest

Fail(status, error) == Response(status, FALSE, error, "error", <<>>, 0, <<>>, 0)

\* the decimal text of an integer
RECURSIVE NatText(_)
NatText(n) ==
  IF n < 10 THEN <<DigitChars[n + 1]>>
  ELSE NatText(n \div 10) \o <<DigitChars[(n % 10) + 1]>>

IntText(n) == IF n < 0 THEN <<"-">> \o NatText(-n) ELSE NatText(n)

\* the zone the server process runs in: at, east of or west of UTC
Zones == {"UTC", "east", "west"}

\* a DATE column in a response: the driver reads it as midnight of that day
\* in the server's zone, and res.json writes that instant as UTC text, the
\* day followed by T and the hour
DateOut(day) ==
  CASE zone = "UTC" -> IntText(day) \o <<"T","0","0">>
    [] zone = "east" -> IntText(day - 1) \o <<"T","2","3">>
    [] zone = "west" -> IntText(day) \o <<"T","0","5">>

\* a row as res.json writes it
Json(row) == [row EXCEPT !.post_date = DateOut(row.post_date)]

Item(row) == Response(200, TRUE, "", "item", <<Json(row)>>, 0, <<>>, 0)

Items(rows) ==
  Response(200, TRUE, "", "items", [k \in 1..Len(rows) |-> Json(rows[k])], 0, <<>>, 0)

\* a statement handed to pool.query, with the error it rejected with ("" for none)
Statement(sql, id, data, err) == [sql |-> sql, id |-> id, data |-> data, err |-> err]

\* what a handler body does: its response, the statements it issued, the table after
Outcome(r, st, p, n) == [res |-> r, stmts |-> st, posts |-> p, nextId |-> n]

ADMIN_USERNAME == <<"a","d","m","i","n">>
ADMIN_PASSWORD == <<"a","d","m","i","n","1","2","3">>

AdminUser == [hasUser |-> TRUE, username |-> ADMIN_USERNAME, role |-> "admin"]
NoUser == [hasUser |-> FALSE, username |-> <<>>, role |-> ""]

\* cookie.maxAge in hours (server.js:75); the clock counts hours
MaxAge == 8

\* a record of the session store: the session's user and when it expires
Session(user, expire) ==
  [hasUser |-> user.hasUser, username |-> user.username, role |-> user.role,
   expire |-> expire]

UserOf(session) ==
  [hasUser |-> session.hasUser, username |-> session.username, role |-> session.role]

\* the store finding the record however old it is
Loaded_NoExpiry(cookie) == cookie \in DOMAIN sessions

\* the store finds the record of the cookie, and it has not expired
Loaded(cookie) ==
  cookie \in DOMAIN sessions /\ sessions[cookie].expire >= clock

\* req.sessionID: the cookie's id when its session was loaded, else a newly
\* generated id, written 0, that the store has no record of
SessionId(cookie) == IF Loaded(cookie) THEN cookie ELSE 0

\* req.session: the stored session of the cookie, or a new empty one
RequestSession(cookie) ==
  IF Loaded(cookie) THEN UserOf(sessions[cookie]) ELSE NoUser

\* the store after a request that leaves its session as it found it: the
\* record's expiry is moved to a full maxAge from now
Touched(cookie) ==
  IF Loaded(cookie)
  THEN [sessions EXCEPT ![cookie].expire = clock + MaxAge]
  ELSE sessions

\* the gate testing req.session alone
Authenticated_SessionOnly(cookie) == RequestSession(cookie) \in {NoUser, AdminUser}

\* requireAuth lets the request through: req.session && req.session.user
Authenticated(cookie) == RequestSession(cookie).hasUser

(***************************************************************************)
(* Handler bodies (what runs after the gate).                              *)
(***************************************************************************)
GetPublicPosts(down) ==
  LET q == SelectPublished(down)
      st == <<Statement("SELECT published", 0, <<>>, q.err)>>
  IN  IF q.err # "" THEN Outcome(Fail(500, q.err), st, posts, nextId)
      ELSE Outcome(Items(q.rows), st, posts, nextId)

GetPublicPost(idText, down) ==
  LET id == Number(idText)
      q == SelectPublishedById(IdValue(id), down)
      st == <<Statement("SELECT published by id", IdValue(id), <<>>, q.err)>>
  IN  IF InvalidId(id) THEN Outcome(Fail(400, "Ungültige ID"), <<>>, posts, nextId)
      ELSE IF q.err # "" THEN Outcome(Fail(500, q.err), st, posts, nextId)
      ELSE IF Len(q.rows) = 0 THEN Outcome(Fail(404, "Nicht gefunden"), st, posts, nextId)
      ELSE Outcome(Item(q.rows[1]), st, posts, nextId)

GetPosts(down) ==
  LET q == SelectAll(down)
      st == <<Statement("SELECT all", 0, <<>>, q.err)>>
  IN  IF q.err # "" THEN Outcome(Fail(500, q.err), st, posts, nextId)
      ELSE Outcome(Items(q.rows), st, posts, nextId)

GetPost(idText, down) ==
  LET id == Number(idText)
      q == SelectById(IdValue(id), down)
      st == <<Statement("SELECT by id", IdValue(id), <<>>, q.err)>>
  IN  IF InvalidId(id) THEN Outcome(Fail(400, "Ungültige ID"), <<>>, posts, nextId)
      ELSE IF q.err # "" THEN Outcome(Fail(500, q.err), st, posts, nextId)
      ELSE IF Len(q.rows) = 0 THEN Outcome(Fail(404, "Nicht gefunden"), st, posts, nextId)
      ELSE Outcome(Item(q.rows[1]), st, posts, nextId)

\* the create handler from the point where normalizePostInput has returned v
\* or thrown (server.js:299-313)
PostNormalized(v, down) ==
  LET q == Insert(v.data, down)
      st == <<Statement("INSERT", 0, <<v.data>>, q.err)>>
  IN  IF ~v.ok THEN Outcome(Fail(400, v.error), <<>>, posts, nextId)
      ELSE IF q.err # "" THEN Outcome(Fail(400, q.err), st, q.posts, q.nextId)
      ELSE Outcome(Item(q.rows[1]), st, q.posts, q.nextId)

\* const data = normalizePostInput(req.body): normalized once, then used
PostPost(body, down) ==
  CHOOSE o \in {PostNormalized(v, down) : v \in {normalizePostInput(body)}} : TRUE

\* the update handler validating the body before it looks at the id
PutPost_ValidatesFirst(idText, body, down) ==
  LET id == Number(idText)
      v == normalizePostInput(body)
      q == Update(v.data, IdValue(id), down)
      st == <<Statement("UPDATE", IdValue(id), <<v.data>>, q.err)>>
  IN  IF ~v.ok THEN Outcome(Fail(400, v.error), <<>>, posts, nextId)
      ELSE IF InvalidId(id) THEN Outcome(Fail(400, "Ungültige ID"), <<>>, posts, nextId)
      ELSE IF q.err # "" THEN Outcome(Fail(400, q.err), st, q.posts, q.nextId)
      ELSE IF Len(q.rows) = 0 THEN Outcome(Fail(404, "Nicht gefunden"), st, q.posts, q.nextId)
      ELSE Outcome(Item(q.rows[1]), st, q.posts, q.nextId)

PutPost(idText, body, down) ==
  LET id == Number(idText)
      v == normalizePostInput(body)
      q == Update(v.data, IdValue(id), down)
      st == <<Statement("UPDATE", IdValue(id), <<v.data>>, q.err)>>
  IN  IF InvalidId(id) THEN Outcome(Fail(400, "Ungültige ID"), <<>>, posts, nextId)
      ELSE IF ~v.ok THEN Outcome(Fail(400, v.error), <<>>, posts, nextId)
      ELSE IF q.err # "" THEN Outcome(Fail(400, q.err), st, q.posts, q.nextId)
      ELSE IF Len(q.rows) = 0 THEN Outcome(Fail(404, "Nicht gefunden"), st, q.posts, q.nextId)
      ELSE Outcome(Item(q.rows[1]), st, q.posts, q.nextId)

DeletePost(idText, down) ==
  LET id == Number(idText)
      q == Delete(IdValue(id), down)
      st == <<Statement("DELETE", IdValue(id), <<>>, q.err)>>
  IN  IF InvalidId(id) THEN Outcome(Fail(400, "Ungültige ID"), <<>>, posts, nextId)
      ELSE IF q.err # "" THEN Outcome(Fail(500, q.err), st, q.posts, q.nextId)
      ELSE IF Len(q.rows) = 0 THEN Outcome(Fail(404, "Nicht gefunden"), st, q.posts, q.nextId)
      ELSE Outcome(Response(200, TRUE, "", "deleted", <<>>, IdValue(id), <<>>, 0),
                   st, q.posts, q.nextId)

GetMe(cookie) ==
  Outcome(Response(200, TRUE, "", "user", <<>>, 0, RequestSession(cookie).username, 0),
          <<>>, posts, nextId)

(***************************************************************************)
(* Requests in flight.  A handler runs up to its first await or callback,   *)
(* other handlers run while it waits, and it goes on when what it waits    *)
(* for completes.                                                          *)
(***************************************************************************)
Slots == 1..MaxInflight

\* a handler in flight: where it stands, who sent the request, the request,
\* req.sessionID, how many responses it has sent and statements it has
\* issued, and its response
InFlight(pc, from, request, sid, sent, queries, response) ==
  [pc |-> pc, from |-> from, req |-> request, sid |-> sid, sent |-> sent,
   queries |-> queries, res |-> response]

Free == InFlight("free", "", NoRequest, 0, 0, 0, NoResponse)

\* the publish action of the admin page: the post it publishes and the item
\* it fetched
Client(pc, id, item) == [pc |-> pc, id |-> id, item |-> item]

NoClient == Client("idle", <<>>, <<>>)

(***************************************************************************)
(* Login and logout (server.js:141-199).                                   *)
(***************************************************************************)
StartsWith(s, prefix) ==
  Len(s) >= Len(prefix) /\ SubSeq(s, 1, Len(prefix)) = prefix

IsBcryptHash(secret) ==
  \/ StartsWith(secret, <<"$","2","a","$">>)
  \/ StartsWith(secret, <<"$","2","b","$">>)
  \/ StartsWith(secret, <<"$","2","y","$">>)

\* bcrypt.compare: a hash is its four-character prefix followed by the password hashed
BcryptCompare(password, hash) == SubSeq(hash, 5, Len(hash)) = password

\* the password compared as plain text whatever the secret looks like
PasswordOk_PlainOnly(password) == password = adminPassword

PasswordOk(password) ==
  IF IsBcryptHash(adminPassword)
  THEN BcryptCompare(password, adminPassword)
  ELSE password = adminPassword

Without(store, sid) == [i \in DOMAIN store \ {sid} |-> store[i]]

With(store, sid, session) ==
  [i \in DOMAIN store \cup {sid} |-> IF i = sid THEN session ELSE store[i]]

(***************************************************************************)
(* Actions: one per route.  A route's action takes a request while no      *)
(* other is being handled and runs the middleware and the handler to the   *)
(* response; req, res, ran and stmts then hold the request, its response,  *)
(* whether the handler body ran and the statements it issued, until Finish *)
(* ends the request.                                                       *)
(***************************************************************************)
\* a route without the gate: the handler body runs
Serve(request, o) ==
  /\ Idle
  /\ o.nextId <= MaxPosts + 1
  /\ req' = request
  /\ res' = o.res
  /\ stmts' = o.stmts
  /\ posts' = o.posts
  /\ nextId' = o.nextId
  /\ ran' = TRUE
  /\ sessions' = Touched(request.cookie)
  /\ UNCHANGED <<clock, nextSid, adminPassword, zone, inflight, client>>

\* requireAuth (server.js:86-91) in front of the handler body
RequireAuth(request, o) ==
  IF Authenticated(request.cookie)
  THEN Serve(request, o)
  ELSE /\ Idle
       /\ req' = request
       /\ res' = Fail(401, "Unauthorized")
       /\ stmts' = <<>>
       /\ ran' = FALSE
       /\ sessions' = Touched(request.cookie)
       /\ UNCHANGED <<posts, nextId, clock, nextSid, adminPassword, zone, inflight, client>>

PublicList(cookie, down) ==
  Serve(Request("GET /api/public/posts", cookie, <<>>, NoBody, NoCreds),
        GetPublicPosts(down))

PublicFetch(cookie, idText, down) ==
  Serve(Request("GET /api/public/posts/:id", cookie, idText, NoBody, NoCreds),
        GetPublicPost(idText, down))

AdminList(cookie, down) ==
  RequireAuth(Request("GET /api/posts", cookie, <<>>, NoBody, NoCreds),
              GetPosts(down))

AdminFetch(cookie, idText, down) ==
  RequireAuth(Request("GET /api/posts/:id", cookie, idText, NoBody, NoCreds),
              GetPost(idText, down))

Create(cookie, body, down) ==
  RequireAuth(Request("POST /api/posts", cookie, <<>>, body, NoCreds),
              PostPost(body, down))

Replace(cookie, idText, body, down) ==
  RequireAuth(Request("PUT /api/posts/:id", cookie, idText, body, NoCreds),
              PutPost(idText, body, down))

Remove(cookie, idText, down) ==
  RequireAuth(Request("DELETE /api/posts/:id", cookie, idText, NoBody, NoCreds),
              DeletePost(idText, down))

\* GET /api/me carries its own copy of the gate (server.js:201-206)
Me(cookie) ==
  /\ Idle
  /\ req' = Request("GET /api/me", cookie, <<>>, NoBody, NoCreds)
  /\ IF ~Authenticated(cookie)
     THEN res' = Fail(401, "Unauthorized") /\ ran' = FALSE
     ELSE res' = GetMe(cookie).res /\ ran' = TRUE
  /\ stmts' = <<>>
  /\ sessions' = Touched(cookie)
  /\ UNCHANGED <<posts, nextId, clock, nextSid, adminPassword, zone, inflight, client>>

\* the store's failure answered like a wrong password
SessionError_AsInvalid(message) == Fail(401, "Ungültige Zugangsdaten")

\* a failure of the session store answered by the login handler
SessionError(message) == Fail(500, message)

SessionOutcomes == {"ok", "regenerate fails", "save fails"}

\* the login that keeps the session it was sent: the user is set on
\* req.session and saved, without regenerate
Login_NoRegenerate(cookie, creds, outcome) ==
  LET username == Trim(StringOr(creds.username, <<>>))
      password == StringOr(creds.password, <<>>)
      kept == SessionId(cookie)
  IN  /\ Idle
      /\ req' = Request("POST /api/login", cookie, <<>>, NoBody, creds)
      /\ ran' = TRUE
      /\ stmts' = <<>>
      /\ UNCHANGED <<posts, nextId, clock, adminPassword, zone, inflight, client>>
      /\ IF username # ADMIN_USERNAME \/ ~PasswordOk(password)
         THEN /\ res' = Fail(401, "Ungültige Zugangsdaten")
              /\ sessions' = Touched(cookie)
              /\ UNCHANGED nextSid
         ELSE IF outcome # "ok"
         THEN /\ res' = SessionError("Session konnte nicht gespeichert werden")
              /\ UNCHANGED <<sessions, nextSid>>
         ELSE IF kept # 0
         THEN /\ res' = Response(200, TRUE, "", "user", <<>>, 0, AdminUser.username, 0)
              /\ sessions' = With(sessions, kept, Session(AdminUser, clock + MaxAge))
              /\ UNCHANGED nextSid
         ELSE /\ nextSid <= MaxSessions
              /\ nextSid' = nextSid + 1
              /\ res' = Response(200, TRUE, "", "user", <<>>, 0,
                                 AdminUser.username, nextSid)
              /\ sessions' = With(sessions, nextSid, Session(AdminUser, clock + MaxAge))

Login(cookie, creds, outcome) ==
  LET username == Trim(StringOr(creds.username, <<>>))
      password == StringOr(creds.password, <<>>)
  IN  /\ Idle
      /\ req' = Request("POST /api/login", cookie, <<>>, NoBody, creds)
      /\ ran' = TRUE
      /\ stmts' = <<>>
      /\ UNCHANGED <<posts, nextId, clock, adminPassword, zone, inflight, client>>
      /\ IF username # ADMIN_USERNAME \/ ~PasswordOk(password)
         THEN /\ res' = Fail(401, "Ungültige Zugangsdaten")
              /\ sessions' = Touched(cookie)
              /\ UNCHANGED nextSid
         ELSE IF outcome = "regenerate fails"
         THEN \* the old record could not be destroyed; the new session is
              \* neither stored nor sent
              /\ res' = SessionError("Session konnte nicht initialisiert werden")
              /\ UNCHANGED <<sessions, nextSid>>
         ELSE /\ nextSid <= MaxSessions
              /\ nextSid' = nextSid + 1
              /\ IF outcome = "save fails"
                 THEN /\ res' = [SessionError("Session konnte nicht gespeichert werden")
                                   EXCEPT !.sid = nextSid]
                      /\ sessions' = Without(sessions, SessionId(cookie))
                 ELSE /\ res' = Response(200, TRUE, "", "user", <<>>, 0,
                                         AdminUser.username, nextSid)
                      /\ sessions' = With(Without(sessions, SessionId(cookie)), nextSid,
                                          Session(AdminUser, clock + MaxAge))

\* the logout that answers without destroying the session
Logout_KeepsRecord(cookie, destroyed) ==
  /\ Idle
  /\ req' = Request("POST /api/logout", cookie, <<>>, NoBody, NoCreds)
  /\ ran' = TRUE
  /\ stmts' = <<>>
  /\ res' = Response(200, TRUE, "", "none", <<>>, 0, <<>>, 0)
  /\ UNCHANGED <<posts, nextId, clock, sessions, nextSid, adminPassword, zone, inflight, client>>

Logout(cookie, destroyed) ==
  /\ Idle
  /\ req' = Request("POST /api/logout", cookie, <<>>, NoBody, NoCreds)
  /\ ran' = TRUE
  /\ stmts' = <<>>
  /\ UNCHANGED <<posts, nextId, clock, nextSid, adminPassword, zone, inflight, client>>
  /\ IF destroyed
     THEN /\ res' = Response(200, TRUE, "", "none", <<>>, 0, <<>>, 0)
          /\ sessions' = Without(sessions, SessionId(cookie))
     ELSE /\ res' = Fail(500, "Logout fehlgeschlagen")
          /\ UNCHANGED sessions

\* time passes between requests: NOW() grows
\* the response is sent and the request ends
Finish ==
  /\ ~Idle
  /\ req' = NoRequest
  /\ res' = NoResponse
  /\ ran' = FALSE
  /\ stmts' = <<>>
  /\ UNCHANGED <<posts, nextId, clock, sessions, nextSid, adminPassword, zone, inflight, client>>

Tick ==
  /\ Idle
  /\ clock < MaxClock
  /\ clock' = clock + 1
  /\ UNCHANGED <<posts, nextId, sessions, nextSid, adminPassword, zone, req, res, ran, stmts,
               inflight, client>>

\* an hour passes between requests
Hour ==
  /\ Idle
  /\ clock < MaxHours
  /\ clock' = clock + 1
  /\ UNCHANGED <<posts, nextId, sessions, nextSid, adminPassword, zone, req, res, ran, stmts,
               inflight, client>>

(***************************************************************************)
(* Handlers in flight (server.js:141-367).  Receive runs a handler up to   *)
(* its first await or callback; Settle completes what it waits for, the    *)
(* statement or the session store's operation, and runs the handler on;    *)
(* Deliver hands the response to the sender.                               *)
(***************************************************************************)
\* the routes behind the gate
ProtectedOps ==
  {"GET /api/me", "GET /api/posts", "GET /api/posts/:id", "POST /api/posts",
   "PUT /api/posts/:id", "DELETE /api/posts/:id"}

QueryOps ==
  {"GET /api/public/posts", "GET /api/public/posts/:id", "GET /api/posts",
   "GET /api/posts/:id", "POST /api/posts", "PUT /api/posts/:id",
   "DELETE /api/posts/:id"}

\* the router: the handler body of a route that queries the pool
HandlerBody(request, down) ==
  CASE request.op = "GET /api/public/posts" -> GetPublicPosts(down)
    [] request.op = "GET /api/public/posts/:id" -> GetPublicPost(request.id, down)
    [] request.op = "GET /api/posts" -> GetPosts(down)
    [] request.op = "GET /api/posts/:id" -> GetPost(request.id, down)
    [] request.op = "POST /api/posts" -> PostPost(request.body, down)
    [] request.op = "PUT /api/posts/:id" -> PutPost(request.id, request.body, down)
    [] request.op = "DELETE /api/posts/:id" -> DeletePost(request.id, down)

\* return res.status(...).json(...): the response is sent and the handler ends
Responded(h, response) ==
  [h EXCEPT !.pc = "done", !.sent = @ + 1, !.res = response]

\* the login handler answering wrong credentials and running on
LoginStart_NoReturn(h) ==
  LET username == Trim(StringOr(h.req.creds.username, <<>>))
      password == StringOr(h.req.creds.password, <<>>)
  IN  IF username # ADMIN_USERNAME \/ ~PasswordOk(password)
      THEN [Responded(h, Fail(401, "Ungültige Zugangsdaten")) EXCEPT !.pc = "regenerating"]
      ELSE [h EXCEPT !.pc = "regenerating"]

\* the login handler up to req.session.regenerate (server.js:143-166)
LoginStart(h) ==
  LET username == Trim(StringOr(h.req.creds.username, <<>>))
      password == StringOr(h.req.creds.password, <<>>)
  IN  IF username # ADMIN_USERNAME \/ ~PasswordOk(password)
      THEN Responded(h, Fail(401, "Ungültige Zugangsdaten"))
      ELSE [h EXCEPT !.pc = "regenerating"]

\* a handler after its synchronous part: the gate, then the checks that need
\* no statement, then the first await or callback
Started(from, request) ==
  LET h == InFlight("running", from, request, SessionId(request.cookie), 0, 0, NoResponse)
  IN  IF request.op \in ProtectedOps /\ ~Authenticated(request.cookie)
      THEN Responded(h, Fail(401, "Unauthorized"))
      ELSE IF request.op = "GET /api/me" THEN Responded(h, GetMe(request.cookie).res)
      ELSE IF request.op = "POST /api/login" THEN LoginStart(h)
      ELSE IF request.op = "POST /api/logout" THEN [h EXCEPT !.pc = "destroying"]
      ELSE LET o == HandlerBody(request, FALSE)
           IN  IF o.stmts = <<>> THEN Responded(h, o.res) ELSE [h EXCEPT !.pc = "awaiting"]

\* store.touch at the end of a response: the record of the request's session,
\* if the store still has it, expires a full maxAge from now
TouchedId(sid) ==
  IF sid \in DOMAIN sessions
  THEN [sessions EXCEPT ![sid].expire = clock + MaxAge]
  ELSE sessions

\* the logins between regenerate and its callback
Regenerating == {slot \in Slots : inflight[slot].pc = "regenerating"}

\* the creates waiting for their INSERT
Creating ==
  {slot \in Slots : /\ inflight[slot].pc = "awaiting"
                    /\ inflight[slot].req.op = "POST /api/posts"}

\* the server takes a request into a free slot
Take(slot, from, request) ==
  /\ inflight[slot] = Free
  /\ \E r \in {request} :
       /\ r.op = "POST /api/login" => nextSid + Cardinality(Regenerating) <= MaxSessions
       /\ r.op = "POST /api/posts" => nextId + Cardinality(Creating) <= MaxPosts
       /\ \E h \in {Started(from, r)} :
            /\ inflight' = [inflight EXCEPT ![slot] = h]
            /\ sessions' = IF h.pc = "done" THEN Touched(r.cookie) ELSE sessions
  /\ UNCHANGED <<posts, nextId, clock, nextSid, adminPassword, zone, req, res, ran, stmts>>

Receive(slot, request) ==
  /\ Take(slot, "other", request)
  /\ UNCHANGED client

\* what the handler waits for completes, or fails
Settle(slot, fails) ==
  LET h == inflight[slot]
  IN  /\ h.pc \in {"awaiting", "regenerating", "saving", "destroying"}
      /\ UNCHANGED <<clock, adminPassword, zone, req, res, ran, stmts, client>>
      /\ CASE h.pc = "awaiting" ->
                \E o \in {HandlerBody(h.req, fails)} :
                  /\ o.nextId <= MaxPosts + 1
                  /\ posts' = o.posts
                  /\ nextId' = o.nextId
                  /\ inflight' = [inflight EXCEPT ![slot] =
                                    [Responded(h, o.res) EXCEPT !.queries = @ + Len(o.stmts)]]
                  /\ sessions' = TouchedId(h.sid)
                  /\ UNCHANGED nextSid
           [] h.pc = "regenerating" ->
                /\ UNCHANGED <<posts, nextId>>
                /\ IF fails
                   THEN /\ inflight' = [inflight EXCEPT ![slot] = Responded(h,
                                SessionError("Session konnte nicht initialisiert werden"))]
                        /\ UNCHANGED <<sessions, nextSid>>
                   ELSE /\ sessions' = Without(sessions, h.sid)
                        /\ nextSid' = nextSid + 1
                        /\ inflight' = [inflight EXCEPT ![slot] =
                                          [h EXCEPT !.pc = "saving", !.sid = nextSid]]
           [] h.pc = "saving" ->
                /\ UNCHANGED <<posts, nextId, nextSid>>
                /\ IF fails
                   THEN /\ inflight' = [inflight EXCEPT ![slot] = Responded(h,
                                [SessionError("Session konnte nicht gespeichert werden")
                                   EXCEPT !.sid = h.sid])]
                        /\ UNCHANGED sessions
                   ELSE /\ inflight' = [inflight EXCEPT ![slot] = Responded(h,
                                Response(200, TRUE, "", "user", <<>>, 0,
                                         AdminUser.username, h.sid))]
                        /\ sessions' = With(sessions, h.sid,
                                            Session(AdminUser, clock + MaxAge))
           [] h.pc = "destroying" ->
                /\ UNCHANGED <<posts, nextId, nextSid>>
                /\ IF fails
                   THEN /\ inflight' = [inflight EXCEPT ![slot] =
                                          Responded(h, Fail(500, "Logout fehlgeschlagen"))]
                        /\ UNCHANGED sessions
                   ELSE /\ inflight' = [inflight EXCEPT ![slot] = Responded(h,
                                Response(200, TRUE, "", "none", <<>>, 0, <<>>, 0))]
                        /\ sessions' = Without(sessions, h.sid)

\* the sender has the response: the slot is free again
Deliver(slot) ==
  /\ inflight[slot].pc = "done"
  /\ inflight[slot].from = "other"
  /\ inflight' = [inflight EXCEPT ![slot] = Free]
  /\ UNCHANGED <<posts, nextId, clock, sessions, nextSid, adminPassword, zone,
                 req, res, ran, stmts, client>>

(***************************************************************************)
(* The publish action of the admin page (admin.js:203-226): fetch the      *)
(* post, then replace it with what was fetched and status 'published'.     *)
(***************************************************************************)
\* String(p.post_date).slice(0, 10): the day, the text in front of the T
SliceDate(text) ==
  IF \E i \in 1..Len(text) : text[i] = "T"
  THEN SubSeq(text, 1, (CHOOSE i \in 1..Len(text) :
                          text[i] = "T" /\ \A j \in 1..(i - 1) : text[j] # "T") - 1)
  ELSE text

\* the body publishPost sends (admin.js:217-223)
PublishPayload(p) ==
  [title |-> Str(p.title), category |-> Str(p.category),
   post_date |-> Str(SliceDate(p.post_date)), body |-> Str(p.body),
   status |-> Str(sPublished)]

\* the click on 'publish': the fetch is sent
PublishFetch(slot, cookie, idText) ==
  /\ client.pc = "idle"
  /\ Take(slot, "publisher", Request("GET /api/posts/:id", cookie, idText, NoBody, NoCreds))
  /\ client' = Client("fetching", idText, <<>>)

\* the fetch is answered: the item is kept, or publishPost throws
PublishGot(slot) ==
  /\ client.pc = "fetching"
  /\ inflight[slot].pc = "done"
  /\ inflight[slot].from = "publisher"
  /\ inflight' = [inflight EXCEPT ![slot] = Free]
  /\ client' = IF inflight[slot].res.ok
               THEN Client("holding", client.id, inflight[slot].res.items)
               ELSE Client("failed", client.id, <<>>)
  /\ UNCHANGED <<posts, nextId, clock, sessions, nextSid, adminPassword, zone,
                 req, res, ran, stmts>>

\* the replace is sent, with the cookie the fetch was sent with
PublishPut(slot, cookie) ==
  /\ client.pc = "holding"
  /\ \E payload \in {PublishPayload(client.item[1])} :
       Take(slot, "publisher",
            Request("PUT /api/posts/:id", cookie, client.id, payload, NoCreds))
  /\ client' = [client EXCEPT !.pc = "putting"]

\* the replace is answered
PublishDone(slot) ==
  /\ client.pc = "putting"
  /\ inflight[slot].pc = "done"
  /\ inflight[slot].from = "publisher"
  /\ inflight' = [inflight EXCEPT ![slot] = Free]
  /\ client' = [client EXCEPT !.pc = IF inflight[slot].res.ok
                                     THEN "published" ELSE "failed"]
  /\ UNCHANGED <<posts, nextId, clock, sessions, nextSid, adminPassword, zone,
                 req, res, ran, stmts>>

(***************************************************************************)
(* The inputs of the server specification.                                 *)
(***************************************************************************)
Payload(t, c, d, b, s) ==
  [title |-> t, category |-> c, post_date |-> d, body |-> b, status |-> s]

PayA == Payload(Str(<<" ","T">>), Str(<<"c">>), Str(<<"1">>), Str(<<"b"," ">>),
                Str(<<" ","P","u","b","l","i","s","h","e","d">>))
PayB == Payload(Str(<<"U">>), Undefined, Str(<<"2">>), Str(<<"v">>),
                Str(<<"P","U","B","L","I","S","H","E","D"," ">>))
PayArchived == Payload(Str(<<"T">>), Str(<<"c">>), Str(<<"1">>), Str(<<"b">>),
                       Str(<<"a","r","c","h","i","v","e","d">>))
PayNoTitle == Payload(Str(<<" ">>), Undefined, Str(<<"1">>), Undefined, Undefined)
PayNoDate == Payload(Str(<<"T">>), Undefined, Undefined, Str(<<"b">>), Undefined)
PayNoBody == Payload(Str(<<"T">>), Undefined, Str(<<"1">>), Str(<<>>), Undefined)
PayBadDate == Payload(Str(<<"T">>), Undefined, Str(<<"x">>), Str(<<"b">>), Str(sDraft))

Payloads == {PayA, PayB, PayArchived, PayNoTitle, PayNoDate, PayNoBody, PayBadDate}

\* the ids the sequence can hand out, zero, and a text that is no number
PathIds == {<<DigitChars[i + 1]>> : i \in 0..MaxPosts} \cup {<<"a","b","c">>}

CredInputs ==
  { [username |-> Str(<<" ">> \o ADMIN_USERNAME), password |-> Str(ADMIN_PASSWORD)],
    [username |-> Str(ADMIN_USERNAME), password |-> Str(<<"x">>)],
    [username |-> Str(<<"r","o","o","t">>), password |-> Str(ADMIN_PASSWORD)] }

Init ==
  /\ posts = <<>>
  /\ nextId = 1
  /\ clock = 0
  /\ sessions = <<>>
  /\ nextSid = 1
  /\ adminPassword = ADMIN_PASSWORD
  /\ zone = "UTC"
  /\ req = NoRequest
  /\ res = NoResponse
  /\ ran = FALSE
  /\ stmts = <<>>
  /\ inflight = [slot \in Slots |-> Free]
  /\ client = NoClient

Next ==
  \/ Idle /\ \E c \in Cookies, down \in BOOLEAN : PublicList(c, down)
  \/ Idle /\ \E c \in Cookies, id \in PathIds, down \in BOOLEAN : PublicFetch(c, id, down)
  \/ Idle /\ \E c \in Cookies, down \in BOOLEAN : AdminList(c, down)
  \/ Idle /\ \E c \in Cookies, id \in PathIds, down \in BOOLEAN : AdminFetch(c, id, down)
  \/ Idle /\ \E c \in Cookies, b \in Payloads, down \in BOOLEAN : Create(c, b, down)
  \/ Idle /\ \E c \in Cookies, id \in PathIds, b \in Payloads, down \in BOOLEAN :
              Replace(c, id, b, down)
  \/ Idle /\ \E c \in Cookies, id \in PathIds, down \in BOOLEAN : Remove(c, id, down)
  \/ Idle /\ \E c \in Cookies : Me(c)
  \/ Idle /\ \E c \in Cookies, cr \in CredInputs, o \in SessionOutcomes : Login(c, cr, o)
  \/ Idle /\ \E c \in Cookies, d \in BOOLEAN : Logout(c, d)
  \/ Finish

\* the server: every route, the database clock standing still
Spec == Init /\ [][Next]_vars

(***************************************************************************)
(* The specifications below start after one successful login: session 1   *)
(* is the admin's.                                                         *)
(*                                                                         *)
(* SpecClock: the clock running while the admin creates, replaces and      *)
(* reads posts.                                                            *)
(***************************************************************************)
InitAdmin ==
  /\ posts = <<>>
  /\ nextId = 1
  /\ clock = 0
  /\ sessions = With(<<>>, 1, Session(AdminUser, MaxAge))
  /\ nextSid = 2
  /\ adminPassword = ADMIN_PASSWORD
  /\ zone = "UTC"
  /\ req = NoRequest
  /\ res = NoResponse
  /\ ran = FALSE
  /\ stmts = <<>>
  /\ inflight = [slot \in Slots |-> Free]
  /\ client = NoClient

\* as InitAdmin, the server running in any zone
InitClock ==
  /\ posts = <<>>
  /\ nextId = 1
  /\ clock = 0
  /\ sessions = With(<<>>, 1, Session(AdminUser, MaxAge))
  /\ nextSid = 2
  /\ adminPassword = ADMIN_PASSWORD
  /\ zone \in Zones
  /\ req = NoRequest
  /\ res = NoResponse
  /\ ran = FALSE
  /\ stmts = <<>>
  /\ inflight = [slot \in Slots |-> Free]
  /\ client = NoClient

\* a body that has only the required fields
PayOmit == Payload(Str(<<"T">>), Undefined, Str(<<"1">>), Str(<<"b">>), Undefined)

ClockPayloads == {PayA, PayB, PayOmit}

NextClock ==
  \/ Idle /\ \E b \in ClockPayloads : Create(1, b, FALSE)
  \/ Idle /\ \E id \in PathIds, b \in ClockPayloads : Replace(1, id, b, FALSE)
  \/ Idle /\ \E id \in PathIds : AdminFetch(1, id, FALSE)
  \/ Finish
  \/ Tick

SpecClock == InitClock /\ [][NextClock]_vars

(***************************************************************************)
(* SpecValidate: create and replace over every combination of raw body     *)
(* fields: absent, empty, blank, padded, and the status in several         *)
(* spellings.                                                              *)
(***************************************************************************)
TitleInputs == {Undefined, Str(<<>>), Str(<<" ">>), Str(<<" ","T"," ">>)}
CategoryInputs == {Undefined, Str(<<" ","c">>)}
DateInputs == {Undefined, Str(<<" ">>), Str(<<"1"," ">>), Str(<<"x">>)}
BodyInputs == {Undefined, Str(<<"\t">>), Str(<<"b">>)}
StatusInputs ==
  {Undefined, Str(<<>>), Str(<<"a","r","c","h","i","v","e","d">>),
   Str(<<" ","P","u","b","l","i","s","h","e","d"," ">>),
   Str(<<"D","R","A","F","T">>), Str(sPublished),
   Str(<<"p","u","b"," ","l","i","s","h","e","d">>)}

AllBodies ==
  {Payload(t, c, d, b, s) : t \in TitleInputs, c \in CategoryInputs,
                            d \in DateInputs, b \in BodyInputs, s \in StatusInputs}

NextValidate ==
  \/ Idle /\ \E b \in AllBodies : Create(1, b, FALSE)
  \/ Idle /\ \E b \in AllBodies : Replace(1, <<"1">>, b, FALSE)
  \/ Finish

SpecValidate == InitAdmin /\ [][NextValidate]_vars

(***************************************************************************)
(* SpecId: the routes with a path id, over every text of at most MaxIdLen  *)
(* characters of IdAlphabet.                                               *)
(***************************************************************************)
IdAlphabet == {"0", "1", "-", "+", ".", "a", " "}

IdTexts == UNION {[1..k -> IdAlphabet] : k \in 0..MaxIdLen}

NextPathId ==
  \/ Idle /\ Create(1, PayA, FALSE)
  \/ Idle /\ \E t \in IdTexts : PublicFetch(0, t, FALSE)
  \/ Idle /\ \E t \in IdTexts : AdminFetch(1, t, FALSE)
  \/ Idle /\ \E t \in IdTexts : Replace(1, t, PayB, FALSE)
  \/ Idle /\ \E t \in IdTexts : Remove(1, t, FALSE)
  \/ Finish

SpecId == InitAdmin /\ [][NextPathId]_vars

(***************************************************************************)
(* SpecLogin: login, logout and GET /api/me under each kind of configured  *)
(* secret, the session store working.                                      *)
(***************************************************************************)
HashOf(prefix, password) == prefix \o password

Secrets ==
  { ADMIN_PASSWORD,
    HashOf(<<"$","2","a","$">>, <<"p","w">>),
    HashOf(<<"$","2","b","$">>, <<"p","w">>),
    HashOf(<<"$","2","y","$">>, <<"p","w">>),
    <<"$","2","x","$","p","w">> }

UsernameInputs ==
  {Undefined, Str(ADMIN_USERNAME), Str(<<" ">> \o ADMIN_USERNAME \o <<"\t">>),
   Str(<<"A","d","m","i","n">>), Str(<<"r","o","o","t">>)}

PasswordInputs ==
  {Undefined, Str(ADMIN_PASSWORD), Str(<<" ">> \o ADMIN_PASSWORD), Str(<<"p","w">>),
   Str(<<"p","w"," ">>), Str(<<"$","2","b","$","p","w">>),
   Str(<<"$","2","x","$","p","w">>)}

LoginInputs ==
  {[username |-> u, password |-> p] : u \in UsernameInputs, p \in PasswordInputs}

InitLogin ==
  /\ posts = <<>>
  /\ nextId = 1
  /\ clock = 0
  /\ sessions = <<>>
  /\ nextSid = 1
  /\ adminPassword \in Secrets
  /\ zone = "UTC"
  /\ req = NoRequest
  /\ res = NoResponse
  /\ ran = FALSE
  /\ stmts = <<>>
  /\ inflight = [slot \in Slots |-> Free]
  /\ client = NoClient

NextLogin ==
  \/ Idle /\ \E c \in Cookies, cr \in LoginInputs : Login(c, cr, "ok")
  \/ Idle /\ \E c \in Cookies : Logout(c, TRUE)
  \/ Idle /\ \E c \in Cookies : Me(c)
  \/ Finish

SpecLogin == InitLogin /\ [][NextLogin]_vars

(***************************************************************************)
(* SpecSession: sessions over time.  Logins and logouts with the store     *)
(* working or failing, every protected operation and the public listing    *)
(* on an empty table, and hours passing between requests.                  *)
(***************************************************************************)
NextSession ==
  \/ Idle /\ \E c \in Cookies, cr \in CredInputs, o \in SessionOutcomes : Login(c, cr, o)
  \/ Idle /\ \E c \in Cookies, d \in BOOLEAN : Logout(c, d)
  \/ Idle /\ \E c \in Cookies : Me(c)
  \/ Idle /\ \E c \in Cookies : PublicList(c, FALSE)
  \/ Idle /\ \E c \in Cookies : AdminList(c, FALSE)
  \/ Idle /\ \E c \in Cookies : AdminFetch(c, <<"1">>, FALSE)
  \/ Idle /\ \E c \in Cookies : Create(c, PayNoTitle, FALSE)
  \/ Idle /\ \E c \in Cookies : Replace(c, <<"1">>, PayA, FALSE)
  \/ Idle /\ \E c \in Cookies : Remove(c, <<"1">>, FALSE)
  \/ Hour
  \/ Finish

SpecSession == Init /\ [][NextSession]_vars

(***************************************************************************)
(* SpecConcurrent: the admin's updates of one stored post and the publish  *)
(* action of the admin page, their requests in flight at the same time.    *)
(***************************************************************************)
\* the post a create with PayArchived stored
FirstPost ==
  [id |-> 1, title |-> <<"T">>, category |-> <<"c">>, post_date |-> 1,
   body |-> <<"b">>, status |-> sDraft, created_at |-> 0, updated_at |-> 0]

\* the state after the admin's login and one create
InitPosted ==
  /\ posts = <<FirstPost>>
  /\ nextId = 2
  /\ clock = 0
  /\ sessions = With(<<>>, 1, Session(AdminUser, MaxAge))
  /\ nextSid = 2
  /\ adminPassword = ADMIN_PASSWORD
  /\ zone = "UTC"
  /\ req = NoRequest
  /\ res = NoResponse
  /\ ran = FALSE
  /\ stmts = <<>>
  /\ inflight = [slot \in Slots |-> Free]
  /\ client = NoClient

\* a request is taken into the first free slot
FirstFree(slot) == \A other \in 1..(slot - 1) : inflight[other] # Free

\* the bodies of the other client's updates: they differ in every column
RacePayloads == {PayB, PayOmit}

NextConcurrent ==
  \/ \E slot \in Slots, b \in RacePayloads :
       /\ FirstFree(slot)
       /\ Receive(slot, Request("PUT /api/posts/:id", 1, <<"1">>, b, NoCreds))
  \/ \E slot \in Slots, fails \in BOOLEAN : Settle(slot, fails)
  \/ \E slot \in Slots : Deliver(slot)
  \/ \E slot \in Slots : FirstFree(slot) /\ PublishFetch(slot, 1, <<"1">>)
  \/ \E slot \in Slots : PublishGot(slot)
  \/ \E slot \in Slots : FirstFree(slot) /\ PublishPut(slot, 1)
  \/ \E slot \in Slots : PublishDone(slot)
  \/ Tick

SpecConcurrent == InitPosted /\ [][NextConcurrent]_vars

(***************************************************************************)
(* The server with requests of every kind in flight: login, logout, me,    *)
(* the public list and an admin create, each able to fail where it waits.  *)
(* pool.query settles and the session store calls back, and a sent         *)
(* response arrives: weak fairness of Settle and Deliver for every slot.   *)
(***************************************************************************)
\* the requests that arrive: login with good and bad credentials, logout, me
\* and an admin create with every cookie the server has issued or none, and
\* the public list
Arrivals ==
  {Request("POST /api/login", cookie, <<>>, NoBody, creds) :
     cookie \in Cookies, creds \in CredInputs}
  \cup {Request(op, cookie, <<>>, NoBody, NoCreds) :
          op \in {"POST /api/logout", "GET /api/me"}, cookie \in Cookies}
  \cup {Request("POST /api/posts", cookie, <<>>, PayOmit, NoCreds) : cookie \in Cookies}
  \cup {Request("GET /api/public/posts", 0, <<>>, NoBody, NoCreds)}

NextRequests ==
  \/ \E slot \in Slots, request \in Arrivals :
       /\ FirstFree(slot)
       /\ Receive(slot, request)
  \/ \E slot \in Slots, fails \in BOOLEAN : Settle(slot, fails)
  \/ \E slot \in Slots : Deliver(slot)

SpecRequests ==
  /\ Init
  /\ [][NextRequests]_vars
  /\ \A slot \in Slots : /\ WF_vars(\E fails \in BOOLEAN : Settle(slot, fails))
                         /\ WF_vars(Deliver(slot))

(***************************************************************************)
(* Claims.                                                                 *)
(***************************************************************************)
\* the step takes a request
Takes == req' # req /\ req' # NoRequest

\* the post a path id of one digit names, 0 when the text is no such id
Named(idText) ==
  IF \E i \in 1..9 : idText = <<DigitChars[i + 1]>>
  THEN CHOOSE i \in 1..9 : idText = <<DigitChars[i + 1]>>
  ELSE 0

\* C1: a protected request (GET /api/me, list, fetch, create, update, delete on
\* /api/posts) that carries no session, or a session without a user, is
\* answered 401 Unauthorized; the handler body does not run, no statement is
\* issued and the posts table stays as it was.
C1_GateRejects ==
  [][ ( /\ Takes
        /\ req'.op \in ProtectedOps
        /\ \/ req'.cookie \notin DOMAIN sessions
           \/ ~sessions[req'.cookie].hasUser
           \/ sessions[req'.cookie].expire < clock )
      => ( /\ res' = Fail(401, "Unauthorized")
           /\ ~ran'
           /\ stmts' = <<>>
           /\ posts' = posts
           /\ nextId' = nextId ) ]_vars

\* a replace of a stored post with a valid body, sent with the cookie of a
\* session that is no longer stored, was answered 401
C1_Witness ==
  /\ req.op = "PUT /api/posts/:id"
  /\ req.cookie \in SIDs
  /\ req.cookie \notin DOMAIN sessions
  /\ Named(req.id) \in DOMAIN posts
  /\ req.body = PayB
  /\ res.status = 401

\* C2: the public listing returns exactly the stored posts whose status is
\* published: no draft, every published post, each once.
C2_PublicListIsPublished ==
  (req.op = "GET /api/public/posts" /\ res.status = 200)
  => /\ {res.items[k].id : k \in 1..Len(res.items)}
          = {i \in DOMAIN posts : posts[i].status = sPublished}
     /\ Len(res.items) = Cardinality({i \in DOMAIN posts : posts[i].status = sPublished})
     /\ \A k \in 1..Len(res.items) :
          /\ posts[res.items[k].id].status # sDraft
          /\ [res.items[k] EXCEPT !.post_date = 0]
               = [posts[res.items[k].id] EXCEPT !.status = <<>>, !.post_date = 0]

\* a listing of one post while a draft and a published post are stored
C2_Witness ==
  /\ req.op = "GET /api/public/posts"
  /\ res.status = 200
  /\ Len(res.items) = 1
  /\ \E i \in DOMAIN posts : posts[i].status = sDraft

\* C3: the public fetch by id answers an id that names a draft exactly as it
\* answers an id that names no post, 404 'Nicht gefunden', whatever session
\* the caller holds (when the store is unreachable both are answered the same
\* 500).
C3_DraftLooksMissing ==
  ( /\ req.op = "GET /api/public/posts/:id"
    /\ Named(req.id) > 0
    /\ \/ Named(req.id) \notin DOMAIN posts
       \/ posts[Named(req.id)].status = sDraft )
  => \/ res = Fail(404, "Nicht gefunden")
     \/ res = Fail(500, StorageDown)

\* a logged-in caller fetched the id of a draft and was answered 404
C3_Witness ==
  /\ req.op = "GET /api/public/posts/:id"
  /\ req.cookie \in DOMAIN sessions
  /\ Named(req.id) \in DOMAIN posts
  /\ posts[Named(req.id)].status = sDraft
  /\ res = Fail(404, "Nicht gefunden")

\* C4: every stored post has status 'draft' or 'published', and every INSERT
\* and UPDATE a request issues carries one of the two, whatever status the
\* request gave.
C4_StatusEnumerated ==
  /\ \A i \in DOMAIN posts : posts[i].status \in {sDraft, sPublished}
  /\ \A k \in 1..Len(stmts) :
       \A j \in 1..Len(stmts[k].data) :
         stmts[k].data[j].status \in {sDraft, sPublished}

\* a create that gave the status 'archived' stored a draft
C4_Witness ==
  /\ req.op = "POST /api/posts"
  /\ req.body.status = Str(<<"a","r","c","h","i","v","e","d">>)
  /\ res.status = 200
  /\ posts[res.items[1].id].status = sDraft

\* the status the claim expects stored for each spelling of the raw status
ExpectedStatus(raw) ==
  IF raw \in {Str(<<" ","P","u","b","l","i","s","h","e","d"," ">>), Str(sPublished)}
  THEN sPublished
  ELSE sDraft

\* the body passes validation and names a date the store accepts
ValidFields(body) ==
  /\ body.title = Str(<<" ","T"," ">>)
  /\ body.post_date = Str(<<"1"," ">>)
  /\ body.body = Str(<<"b">>)

\* C5: create and update trim and lower-case the status; 'draft' and
\* 'published' are stored as such and every other value (absent, empty,
\* 'archived', ...) is stored as 'draft'; the request is not rejected for it.
C5_StatusNormalized ==
  ( /\ req.op \in {"POST /api/posts", "PUT /api/posts/:id"}
    /\ ValidFields(req.body)
    /\ req.op = "PUT /api/posts/:id" => Named(req.id) \in DOMAIN posts )
  => /\ res.status = 200
     /\ res.items[1].status = ExpectedStatus(req.body.status)
     /\ posts[res.items[1].id].status = ExpectedStatus(req.body.status)

\* an update that gave the status ' Published ' stored 'published'
C5_Witness ==
  /\ req.op = "PUT /api/posts/:id"
  /\ ValidFields(req.body)
  /\ req.body.status = Str(<<" ","P","u","b","l","i","s","h","e","d"," ">>)
  /\ res.status = 200
  /\ posts[res.items[1].id].status = sPublished

\* a required field that is absent or empty after trimming
Missing(field) == field \in {Undefined, Str(<<>>), Str(<<" ">>), Str(<<"\t">>)}

\* the trimmed text of each raw field drawn
Trimmed(field) ==
  IF field = Str(<<" ","T"," ">>) THEN <<"T">>
  ELSE IF field = Str(<<" ","c">>) THEN <<"c">>
  ELSE IF field = Str(<<"1"," ">>) THEN <<"1">>
  ELSE IF field = Str(<<"x">>) THEN <<"x">>
  ELSE IF field = Str(<<"b">>) THEN <<"b">>
  ELSE <<>>

\* C6: validation fails exactly when title, post_date or body is absent or
\* empty after trimming, naming the first missing field in the order title,
\* post_date, body; otherwise the trimmed fields go to the statement, the
\* category defaulting to the empty text.
C6_ValidationOrder ==
  (req.op = "POST /api/posts" \/ (req.op = "PUT /api/posts/:id" /\ Named(req.id) > 0))
  => IF Missing(req.body.title) THEN res = Fail(400, "Titel fehlt") /\ stmts = <<>>
     ELSE IF Missing(req.body.post_date) THEN res = Fail(400, "Datum fehlt") /\ stmts = <<>>
     ELSE IF Missing(req.body.body) THEN res = Fail(400, "Text fehlt") /\ stmts = <<>>
     ELSE /\ Len(stmts) = 1
          /\ res.error \notin {"Titel fehlt", "Datum fehlt", "Text fehlt"}
          /\ stmts[1].data[1].title = Trimmed(req.body.title)
          /\ stmts[1].data[1].category = Trimmed(req.body.category)
          /\ stmts[1].data[1].post_date = Trimmed(req.body.post_date)
          /\ stmts[1].data[1].body = Trimmed(req.body.body)

\* a create without title and without body was refused naming the title
C6_Witness ==
  /\ req.op = "POST /api/posts"
  /\ req.body.title = Undefined
  /\ req.body.body = Undefined
  /\ ~Missing(req.body.post_date)
  /\ res = Fail(400, "Titel fehlt")

\* the path id is no positive integer (of the ids the server specification draws)
BadPathId(idText) == idText \in {<<"0">>, <<"a","b","c">>}

\* the body lacks a required field (of the bodies the server specification draws)
BadBody(body) == body \in {PayNoTitle, PayNoDate, PayNoBody}

\* C7: when the handler of create or update finds the body invalid, or the
\* handler of fetch, update or delete (admin or public) finds the path id
\* invalid, the response is 400, no statement is issued and the posts table
\* stays as it was.
C7_RejectedBeforeStorage ==
  [][ ( /\ Takes
        /\ ran'
        /\ \/ req'.op \in {"POST /api/posts", "PUT /api/posts/:id"} /\ BadBody(req'.body)
           \/ /\ req'.op \in {"GET /api/public/posts/:id", "GET /api/posts/:id",
                              "PUT /api/posts/:id", "DELETE /api/posts/:id"}
              /\ BadPathId(req'.id) )
      => ( /\ res'.status = 400
           /\ ~res'.ok
           /\ stmts' = <<>>
           /\ posts' = posts
           /\ nextId' = nextId ) ]_vars

\* an update of a stored post whose body has no title was refused with 400
C7_Witness ==
  /\ req.op = "PUT /api/posts/:id"
  /\ ran
  /\ Named(req.id) \in DOMAIN posts
  /\ req.body = PayNoTitle
  /\ res.status = 400
  /\ stmts = <<>>

IdOps ==
  {"GET /api/public/posts/:id", "GET /api/posts/:id", "PUT /api/posts/:id",
   "DELETE /api/posts/:id"}

Blank(s) == \A i \in 1..Len(s) : s[i] \in {" ", "\t"}

Zeros(s) == \A i \in 1..Len(s) : s[i] = "0"

\* the integers a text denotes as a decimal numeral: blanks, an optional plus
\* sign, digits, an optional point followed by zeros only, blanks
Readings(t) ==
  { DecimalValue(SubSeq(t, b + 1, c)) :
      <<a, b, c>> \in
        { w \in (0..Len(t)) \X (0..Len(t)) \X (0..Len(t)) :
            /\ w[1] <= w[2] /\ w[2] < w[3]
            /\ Blank(SubSeq(t, 1, w[1]))
            /\ SubSeq(t, w[1] + 1, w[2]) \in {<<>>, <<"+">>}
            /\ AllDigits(SubSeq(t, w[2] + 1, w[3]))
            /\ \E d \in w[3]..Len(t) :
                 /\ \/ d = w[3]
                    \/ /\ t[w[3] + 1] = "."
                       /\ Zeros(SubSeq(t, w[3] + 2, d))
                 /\ Blank(SubSeq(t, d + 1, Len(t))) } }

PositiveReadings(t) == {v \in Readings(t) : v > 0}

\* C8: the fetch, update and delete handlers (admin and public) accept a path
\* id only if it is a positive integer; zero, a negative or fractional number
\* and text that is no number ('abc') are refused with 400 'Ungültige ID'
\* before any statement, and an accepted id reaches the statement as that
\* integer.
C8_IdParsing ==
  /\ \A t \in {<<"a","b","c">>, <<"0">>, <<"-","1">>, <<"1",".","2">>, <<".","1">>,
               <<"1","a">>, <<>>} : PositiveReadings(t) = {}
  /\ (req.op \in IdOps /\ ran)
     => IF PositiveReadings(req.id) = {}
        THEN res = Fail(400, "Ungültige ID") /\ stmts = <<>>
        ELSE /\ Len(stmts) = 1
             /\ stmts[1].id \in PositiveReadings(req.id)
             /\ res.error # "Ungültige ID"

\* the path id '1.0' deleted post 1
C8_Witness ==
  /\ req.op = "DELETE /api/posts/:id"
  /\ req.id = <<"1",".","0">>
  /\ res.status = 200
  /\ res.deletedId = 1
  /\ stmts[1].id = 1

PostOps ==
  {"GET /api/public/posts", "GET /api/public/posts/:id", "GET /api/posts",
   "GET /api/posts/:id", "POST /api/posts", "PUT /api/posts/:id",
   "DELETE /api/posts/:id"}

\* C9: when the statement of a post handler fails, the response is a 500
\* carrying the statement's message.
C9_StorageFailureIs500 ==
  (req.op \in PostOps /\ ran /\ Len(stmts) = 1 /\ stmts[1].err # "")
  => res = Fail(500, stmts[1].err)

\* the body passes validation and its date is one the store accepts
GoodBody(body) == body \in {PayA, PayB, PayArchived}

\* C10: for a valid id that names no stored post, admin fetch, update (with a
\* valid body) and delete issue their statement and, unless the statement
\* itself fails, answer 404 'Nicht gefunden'; the posts table stays as it was.
C10_NotFound ==
  [][ ( /\ Takes
        /\ ran'
        /\ req'.op \in {"GET /api/posts/:id", "PUT /api/posts/:id", "DELETE /api/posts/:id"}
        /\ Named(req'.id) > 0
        /\ Named(req'.id) \notin DOMAIN posts
        /\ req'.op = "PUT /api/posts/:id" => GoodBody(req'.body) )
      => ( /\ Len(stmts') = 1
           /\ stmts'[1].err = "" => res' = Fail(404, "Nicht gefunden")
           /\ posts' = posts
           /\ nextId' = nextId ) ]_vars

\* an update with a valid body of an id that names no post, while another
\* post is stored, was answered 404
C10_Witness ==
  /\ req.op = "PUT /api/posts/:id"
  /\ req.body = PayA
  /\ Named(req.id) > 0
  /\ Named(req.id) \notin DOMAIN posts
  /\ DOMAIN posts # {}
  /\ res = Fail(404, "Nicht gefunden")

\* the usernames of UsernameInputs that trim to the admin's
AdminSpellings == {Str(ADMIN_USERNAME), Str(<<" ">> \o ADMIN_USERNAME \o <<"\t">>)}

\* the secret is a hash: $2a$, $2b$ or $2y$ in front
Hashed(secret) ==
  /\ Len(secret) >= 4
  /\ secret[1] = "$" /\ secret[2] = "2" /\ secret[3] \in {"a", "b", "y"} /\ secret[4] = "$"

\* the password verifies against the secret in the mode the secret's format selects
Verifies(password, secret) ==
  IF Hashed(secret)
  THEN password.k = "string" /\ secret = SubSeq(secret, 1, 4) \o password.s
  ELSE password.k = "string" /\ password.s = secret

\* C11: the session store working, a login succeeds exactly when the trimmed
\* username is the admin's and the password verifies in the mode the secret's
\* format selects (hash comparison for a secret starting $2a$, $2b$ or $2y$,
\* equality otherwise); every other login is answered 401 'Ungültige
\* Zugangsdaten', sends no session id, stores no session and leaves the stored
\* sessions, the caller's among them, with the user they had.
C11_LoginIffCredentials ==
  [][ (Takes /\ req'.op = "POST /api/login")
      => LET good == /\ req'.creds.username \in AdminSpellings
                     /\ Verifies(req'.creds.password, adminPassword)
         IN  /\ good <=> (res'.status = 200 /\ res'.ok)
             /\ good => /\ res'.sid \in DOMAIN sessions'
                         /\ sessions'[res'.sid].hasUser
             /\ ~good => /\ res' = Fail(401, "Ungültige Zugangsdaten")
                          /\ nextSid' = nextSid
                          /\ DOMAIN sessions' = DOMAIN sessions
                          /\ \A c \in DOMAIN sessions :
                               /\ UserOf(sessions'[c]) = UserOf(sessions[c])
                               /\ sessions'[c].expire >= sessions[c].expire ]_vars

\* a login with the padded username and the password a $2y$ hash was made of
\* succeeded
C11_Witness ==
  /\ req.op = "POST /api/login"
  /\ adminPassword = HashOf(<<"$","2","y","$">>, <<"p","w">>)
  /\ req.creds.username = Str(<<" ">> \o ADMIN_USERNAME \o <<"\t">>)
  /\ req.creds.password = Str(<<"p","w">>)
  /\ res.ok

\* the store holds an unexpired session with a user under the id
Live(store, sid, now) ==
  sid \in DOMAIN store /\ store[sid].hasUser /\ store[sid].expire >= now

\* C12: a successful login establishes a new session: the id it returns is
\* none the server has generated before, and so differs from the one the
\* caller presented; the new record holds exactly the username and the role
\* 'admin'; a protected request carrying the id of a live session with a user
\* passes the gate; the id presented at the login refers to no live session
\* after it, and an id that refers to none never refers to one again.
C12_LoginEstablishesNewSession ==
  [][ /\ (Takes /\ req'.op = "POST /api/login" /\ res'.ok)
         => /\ res'.sid \in SIDs
            /\ res'.sid \notin 1..(nextSid - 1)
            /\ res'.sid # req'.cookie
            /\ res'.sid \in DOMAIN sessions'
            /\ UserOf(sessions'[res'.sid])
                 = [hasUser |-> TRUE, username |-> ADMIN_USERNAME, role |-> "admin"]
            /\ Live(sessions', res'.sid, clock')
            /\ ~Live(sessions', req'.cookie, clock')
      /\ (Takes /\ req'.op \in ProtectedOps /\ Live(sessions, req'.cookie, clock))
         => (res'.status # 401 /\ ran')
      /\ \A c \in 1..(nextSid - 1) :
           ~Live(sessions, c, clock) => ~Live(sessions', c, clock') ]_vars

\* a login sent with the cookie of the first session succeeded: the second
\* id was returned and the first is no longer stored
C12_Witness ==
  /\ req.op = "POST /api/login"
  /\ req.cookie = 1
  /\ res.ok
  /\ res.sid = 2
  /\ DOMAIN sessions = {2}

\* the credentials of CredInputs that are the admin's under the default secret
GoodCreds ==
  [username |-> Str(<<" ","a","d","m","i","n">>),
   password |-> Str(<<"a","d","m","i","n","1","2","3">>)]

\* the step stored a live session under an id not generated before
StoresNewSession ==
  \E sid \in SIDs \ (1..(nextSid - 1)) : Live(sessions', sid, clock')

\* C13: a login with correct credentials whose session could not be
\* established (regenerate or save failed, so no new session is stored) is
\* answered 500 with a session error, 'Session konnte nicht initialisiert
\* werden' or 'Session konnte nicht gespeichert werden', which is not the 401
\* 'Ungültige Zugangsdaten'; it does not report ok: true, and a login that
\* reports ok: true has stored its session.
C13_SessionErrorIs500 ==
  [][ (Takes /\ req'.op = "POST /api/login")
      => /\ (req'.creds = GoodCreds /\ ~StoresNewSession)
            => /\ res'.status = 500
               /\ ~res'.ok
               /\ res'.kind = "error"
               /\ res'.error \in {"Session konnte nicht initialisiert werden",
                                   "Session konnte nicht gespeichert werden"}
               /\ res'.user = <<>>
         /\ res'.ok => StoresNewSession ]_vars

\* correct credentials were answered 500 after the save failed: the new id
\* was sent but has no record
C13_Witness ==
  /\ req.op = "POST /api/login"
  /\ req.creds = GoodCreds
  /\ res.status = 500
  /\ res.error = "Session konnte nicht gespeichert werden"
  /\ res.sid \in SIDs
  /\ res.sid \notin DOMAIN sessions

\* C14: POST /api/logout answers 200 {ok: true} in every state and whatever
\* the outcome of destroying the session record.
C14_LogoutAlwaysOk ==
  (req.op = "POST /api/logout") => (res.status = 200 /\ res.ok)

\* the logout of the session with the id succeeded
LoggedOut(sid) ==
  req.op = "POST /api/logout" /\ req.cookie = sid /\ res.ok

\* C15: once a logout carrying a session id has reported success, every
\* later protected request carrying that id is answered 401 Unauthorized and
\* its handler body does not run, whatever logins follow (a later login
\* establishes a session under another id).
C15_LoggedOutStaysOut ==
  \A sid \in SIDs :
    [](LoggedOut(sid)
       => []((req.op \in ProtectedOps /\ req.cookie = sid)
             => (res = Fail(401, "Unauthorized") /\ ~ran)))

\* the first session was logged out, a second login succeeded, and a
\* protected request carrying the first id was then answered 401
C15_Witness ==
  /\ req.op = "DELETE /api/posts/:id"
  /\ req.cookie = 1
  /\ res.status = 401
  /\ nextSid = 3
  /\ Live(sessions, 2, clock)
  /\ 1 \notin DOMAIN sessions

\* C16: a session lasts eight hours from when it was established or last
\* used.  A successful login stores its session to expire MaxAge hours
\* later; no record ever expires later than MaxAge hours from now; a step
\* that is not a request carrying a session's id leaves its expiry where it
\* was; and a protected request carrying the id of a session whose expiry
\* has passed is answered 401 Unauthorized, its handler body not run and the
\* session not revived, though it was never logged out.
C16_SessionExpires ==
  [][ /\ (Takes /\ req'.op = "POST /api/login" /\ res'.ok)
         => sessions'[res'.sid].expire = clock + MaxAge
      /\ \A c \in DOMAIN sessions' : sessions'[c].expire <= clock' + MaxAge
      /\ \A c \in DOMAIN sessions \cap DOMAIN sessions' :
           ~(Takes /\ req'.cookie = c) => sessions'[c].expire = sessions[c].expire
      /\ ( /\ Takes
           /\ req'.op \in ProtectedOps
           /\ req'.cookie \in DOMAIN sessions
           /\ sessions[req'.cookie].expire < clock )
         => /\ res' = Fail(401, "Unauthorized")
            /\ ~ran'
            /\ sessions' = sessions ]_vars

\* the admin's session, stored and never logged out, was presented to the
\* admin listing after its expiry and answered 401
C16_Witness ==
  /\ req.op = "GET /api/posts"
  /\ req.cookie \in DOMAIN sessions
  /\ sessions[req.cookie].hasUser
  /\ sessions[req.cookie].expire < clock
  /\ res.status = 401

\* the record an admin fetch of the id returns from the state as it is
Fetched(id) == GetPost(IntText(id), FALSE).res

\* C17: after a successful create, the admin fetch of the returned id
\* returns a record whose title, category, post_date, body and status equal
\* the (normalized) input fields, whose id is positive and was the id of no
\* stored post, and whose created_at equals its updated_at.
C17_CreateThenFetch ==
  [][ (Takes /\ req'.op = "POST /api/posts" /\ res'.status = 200)
      => \A id \in 0..(MaxPosts + 1) :
           (res'.items[1].id = id)
           => LET input == normalizePostInput(req'.body).data
                  got == Fetched(id)'
              IN  /\ id > 0
                  /\ id \notin DOMAIN posts
                  /\ got.status = 200
                  /\ got.items[1].id = id
                  /\ got.items[1].title = input.title
                  /\ got.items[1].category = input.category
                  /\ got.items[1].post_date = input.post_date
                  /\ got.items[1].body = input.body
                  /\ got.items[1].status = input.status
                  /\ got.items[1].created_at = got.items[1].updated_at ]_vars

\* the stored post but for its updated_at
Unstamped(row) == [row EXCEPT !.updated_at = 0]

\* the stored post has the five fields the body writes
Applied(row, body) ==
  LET data == normalizePostInput(body).data
  IN  /\ row.title = data.title
      /\ row.category = data.category
      /\ row.post_date = DecimalValue(data.post_date)
      /\ row.body = data.body
      /\ row.status = data.status

\* C18: replacing a post with the same valid body again changes nothing but
\* updated_at.  A successful replace leaves the post with the fields its
\* body writes; and a successful replace of a post that already has those
\* fields (the same body was applied before) leaves its title, category,
\* post_date, body, status, id and created_at as they were, whatever time
\* has passed in between.
C18_UpdateIdempotent ==
  [][ (Takes /\ req'.op = "PUT /api/posts/:id" /\ res'.status = 200)
      => \A id \in DOMAIN posts :
           (res'.items[1].id = id)
           => /\ Applied(posts'[id], req'.body)
              /\ Applied(posts[id], req'.body)
                 => Unstamped(posts'[id]) = Unstamped(posts[id]) ]_vars

\* a replace with PayB succeeded after the clock moved: the post keeps the
\* created_at of its creation under the later updated_at
C18_Witness ==
  /\ req.op = "PUT /api/posts/:id"
  /\ req.body = PayB
  /\ res.status = 200
  /\ Applied(posts[res.items[1].id], PayB)
  /\ posts[res.items[1].id].created_at < posts[res.items[1].id].updated_at

\* the ids of the posts a listing is to return
Qualifying(op) ==
  IF op = "GET /api/public/posts"
  THEN {i \in DOMAIN posts : posts[i].status = sPublished}
  ELSE DOMAIN posts

\* C19: the admin listing and the public listing return their posts (all,
\* respectively the published ones) each exactly once, by post_date
\* descending, posts of the same post_date by id descending.
C19_ListingOrder ==
  (req.op \in {"GET /api/public/posts", "GET /api/posts"} /\ res.status = 200)
  => /\ {res.items[k].id : k \in 1..Len(res.items)} = Qualifying(req.op)
     /\ Len(res.items) = Cardinality(Qualifying(req.op))
     /\ \A k \in 1..(Len(res.items) - 1) :
          LET a == posts[res.items[k].id]
              b == posts[res.items[k + 1].id]
          IN  \/ a.post_date > b.post_date
              \/ a.post_date = b.post_date /\ a.id > b.id

\* an admin listing of two posts of the same post_date, the later id first
C19_Witness ==
  /\ req.op = "GET /api/posts"
  /\ res.status = 200
  /\ Len(res.items) = 2
  /\ posts[res.items[1].id].post_date = posts[res.items[2].id].post_date
  /\ res.items[1].id > res.items[2].id

\* what each body of ClockPayloads is to write
Written(body) ==
  IF body = PayA
  THEN [title |-> <<"T">>, category |-> <<"c">>, post_date |-> 1, body |-> <<"b">>,
        status |-> sPublished]
  ELSE IF body = PayB
  THEN [title |-> <<"U">>, category |-> <<>>, post_date |-> 2, body |-> <<"v">>,
        status |-> sPublished]
  ELSE [title |-> <<"T">>, category |-> <<>>, post_date |-> 1, body |-> <<"b">>,
        status |-> sDraft]

\* C20: a successful update of a post writes its title, category, post_date,
\* body and status from the normalized body, an omitted category as the
\* empty text and an omitted status as 'draft', never the old value; it sets
\* updated_at to the time of the update, keeps the post's id and created_at,
\* and leaves every other post and the id sequence as they were.
C20_UpdateRewritesAll ==
  [][ (Takes /\ req'.op = "PUT /api/posts/:id" /\ res'.status = 200)
      => \A id \in DOMAIN posts :
           (res'.items[1].id = id)
           => /\ id = Named(req'.id)
              /\ posts'[id] = [id |-> id,
                               title |-> Written(req'.body).title,
                               category |-> Written(req'.body).category,
                               post_date |-> Written(req'.body).post_date,
                               body |-> Written(req'.body).body,
                               status |-> Written(req'.body).status,
                               created_at |-> posts[id].created_at,
                               updated_at |-> clock]
              /\ DOMAIN posts' = DOMAIN posts
              /\ \A other \in DOMAIN posts \ {id} : posts'[other] = posts[other]
              /\ nextId' = nextId ]_vars

\* the first of two posts was replaced, an hour after its creation, by a
\* body without category and status: it has the empty category and is a draft
C20_Witness ==
  /\ req.op = "PUT /api/posts/:id"
  /\ req.body = PayOmit
  /\ res.status = 200
  /\ DOMAIN posts = {1, 2}
  /\ res.items[1].id = 1
  /\ posts[1].category = <<>>
  /\ posts[1].status = sDraft
  /\ posts[1].created_at < posts[1].updated_at
  /\ posts[2].category = <<"c">>

\* the id was handed out and names no stored post: the post was deleted
Deleted(id) == id \in 1..(nextId - 1) /\ id \notin DOMAIN posts

\* C21: a successful delete answers with the id as deletedId, removes that
\* post and no other, and leaves every other post and the id sequence as
\* they were; a deleted id is never stored again; and an admin fetch, a
\* public fetch, an update with a valid body or another delete naming a
\* deleted id, when its handler runs and its statement does not fail, is
\* answered 404 'Nicht gefunden' and leaves the table as it was.
C21_DeleteRemovesOne ==
  [][ /\ (Takes /\ req'.op = "DELETE /api/posts/:id" /\ res'.status = 200)
         => /\ Named(req'.id) \in DOMAIN posts
            /\ res'.deletedId = Named(req'.id)
            /\ res'.ok
            /\ DOMAIN posts' = DOMAIN posts \ {Named(req'.id)}
            /\ \A other \in DOMAIN posts' : posts'[other] = posts[other]
            /\ nextId' = nextId
      /\ \A id \in 1..(MaxPosts + 1) : Deleted(id) => Deleted(id)'
      /\ ( /\ Takes
           /\ ran'
           /\ req'.op \in {"GET /api/posts/:id", "GET /api/public/posts/:id",
                            "PUT /api/posts/:id", "DELETE /api/posts/:id"}
           /\ Deleted(Named(req'.id))
           /\ req'.op = "PUT /api/posts/:id" => GoodBody(req'.body)
           /\ \A k \in 1..Len(stmts') : stmts'[k].err = "" )
         => (res' = Fail(404, "Nicht gefunden") /\ posts' = posts) ]_vars

\* the first of two posts was deleted and a second delete of it, the other
\* post still stored, was answered 404
C21_Witness ==
  /\ req.op = "DELETE /api/posts/:id"
  /\ req.id = <<"1">>
  /\ res.status = 404
  /\ Deleted(1)
  /\ 2 \in DOMAIN posts

\* an update answered in this step: the handler in the slot waited for its
\* UPDATE and has its response
Updated(slot) ==
  /\ inflight[slot].pc = "awaiting"
  /\ inflight[slot].req.op = "PUT /api/posts/:id"
  /\ inflight'[slot].pc = "done"

\* the row an update's statement stores: the normalized body in the five
\* mutable columns, the time of the statement in updated_at
Stored(row, body, now) ==
  [row EXCEPT !.title = normalizePostInput(body).data.title,
              !.category = normalizePostInput(body).data.category,
              !.post_date = DateIn(normalizePostInput(body).data.post_date),
              !.body = normalizePostInput(body).data.body,
              !.status = normalizePostInput(body).data.status,
              !.updated_at = now]

\* C22: with two updates of the same post in flight, in any interleaving,
\* each one whose statement the storage runs succeeds, and its statement
\* stores its own complete normalized body in the post, id and created_at
\* kept; the post changes in no other step, so it holds at every moment the
\* complete body of the update whose statement ran last, never fields of two.
C22_LastWriterWins ==
  [][ /\ \A slot \in Slots :
           Updated(slot)
           => \/ /\ inflight'[slot].res.status = 200
                 /\ posts' = [posts EXCEPT ![1] = Stored(posts[1], inflight[slot].req.body,
                                                         clock)]
              \/ /\ inflight'[slot].res.status = 400
                 /\ inflight'[slot].res.error = StorageDown
                 /\ posts' = posts
      /\ posts' # posts => \E slot \in Slots : Updated(slot) ]_vars

\* two updates with different bodies were in flight and both have succeeded:
\* the post holds the whole body of the second slot's and nothing of the first's
C22_Witness ==
  /\ \A slot \in Slots : slot <= 2 => /\ inflight[slot].pc = "done"
                                      /\ inflight[slot].req.op = "PUT /api/posts/:id"
                                      /\ inflight[slot].res.status = 200
  /\ inflight[1].req.body = PayOmit
  /\ inflight[2].req.body = PayB
  /\ posts[1] = Stored(FirstPost, PayB, clock)
  /\ clock = 1

\* the validation error each invalid body of the server specification earns
ValidationError(body) ==
  IF body = PayNoTitle THEN "Titel fehlt"
  ELSE IF body = PayNoDate THEN "Datum fehlt"
  ELSE "Text fehlt"

\* C23: on the protected routes the gate comes first, then the path id, then
\* the body, then storage.  A request without a live session and with an
\* invalid id is answered 401, not 400; an update by the admin with an
\* invalid id and an invalid body is answered 400 'Ungültige ID', not the
\* validation error; an update by the admin with a valid id that names no
\* post and an invalid body is answered 400 with the validation error, not
\* 404, and no statement is issued.
C23_ErrorPrecedence ==
  [][ Takes
      => /\ ( /\ req'.op \in {"GET /api/posts/:id", "PUT /api/posts/:id",
                               "DELETE /api/posts/:id"}
              /\ ~Live(sessions, req'.cookie, clock)
              /\ BadPathId(req'.id) )
            => res' = Fail(401, "Unauthorized")
         /\ ( /\ req'.op = "PUT /api/posts/:id"
              /\ Live(sessions, req'.cookie, clock)
              /\ BadPathId(req'.id)
              /\ BadBody(req'.body) )
            => res' = Fail(400, "Ungültige ID")
         /\ ( /\ req'.op = "PUT /api/posts/:id"
              /\ Live(sessions, req'.cookie, clock)
              /\ Named(req'.id) > 0
              /\ Named(req'.id) \notin DOMAIN posts
              /\ BadBody(req'.body) )
            => (res' = Fail(400, ValidationError(req'.body)) /\ stmts' = <<>>) ]_vars

\* the admin's update with the id 0 and a body without title was answered
\* 400 'Ungültige ID'
C23_Witness ==
  /\ req.op = "PUT /api/posts/:id"
  /\ req.cookie \in DOMAIN sessions
  /\ req.id = <<"0">>
  /\ req.body = PayNoTitle
  /\ res = Fail(400, "Ungültige ID")

\* where a handler waits: for its statement, or for the session store
Waiting == {"awaiting", "regenerating", "saving", "destroying"}

\* the request in the slot is answered in this step with a failure
FailsNow(slot) ==
  /\ inflight[slot].pc # "done"
  /\ inflight'[slot].pc = "done"
  /\ inflight'[slot].res.status >= 400

\* C24: each request fails independently.  A request has at most one
\* response, and has exactly one once its handler has ended; it issues at
\* most one statement, none again after a failure; a handler that waits for
\* the storage or the session store is eventually answered, whether what it
\* waits for succeeds or fails; a request answered with a failure leaves the
\* posts, the id sequence, the stored sessions and every other request in
\* flight as they were, and its slot is free again for the next request.
C24_OneResponseEach ==
  /\ [](\A slot \in Slots :
          /\ inflight[slot].sent <= 1
          /\ inflight[slot].queries <= 1
          /\ inflight[slot].pc = "done" <=> inflight[slot].sent = 1
          /\ inflight[slot].pc = "done" => inflight[slot].res.status \in 200..599)
  /\ [][\A slot \in Slots :
          FailsNow(slot)
          => /\ posts' = posts
             /\ nextId' = nextId
             /\ DOMAIN sessions' = DOMAIN sessions
             /\ inflight'[slot].queries <= 1
             /\ \A other \in Slots \ {slot} : inflight'[other] = inflight[other]]_vars
  /\ \A slot \in Slots :
       /\ (inflight[slot].pc \in Waiting) ~> (inflight[slot].pc = "done")
       /\ (inflight[slot].pc = "done") ~> (inflight[slot] = Free)

\* a login failed when its session was saved and was answered 500 once; a
\* create received with the session of an earlier login waits for its INSERT
C24_Witness ==
  /\ inflight[1].pc = "done"
  /\ inflight[1].req.op = "POST /api/login"
  /\ inflight[1].res.status = 500
  /\ inflight[1].sent = 1
  /\ inflight[2].pc = "awaiting"
  /\ inflight[2].req.op = "POST /api/posts"

\* C25: the publish action changes only the post's status: in any
\* interleaving with other updates of the post, the statement of the
\* publisher's update leaves title, category, post_date and body as the
\* last update wrote them.
C25_PublishOnlyStatus ==
  [][ \A slot \in Slots :
        (Updated(slot) /\ inflight[slot].from = "publisher"
           /\ inflight'[slot].res.status = 200)
        => posts'[1] = [posts[1] EXCEPT !.status = sPublished, !.updated_at = clock] ]_vars

====
